---- MODULE Spec2Model ----
(***************************************************************************)
(* Employee Management System: the EmployeeManager record store of         *)
(* "2 Python Fundamentals/Final Python Project/employee_manager.py".       *)
(*                                                                         *)
(* One run of the program is modelled: the constructor loads the backing   *)
(* CSV file, then run() serves menu choices until the operator exits.      *)
(* Every input() call is a step that reads one line drawn from a small     *)
(* set; a handler's position between two prompts is the value of pc.       *)
(*                                                                         *)
(* A Python str is a sequence of one-character strings, so that strip(),   *)
(* upper(), float(), str(float), the email pattern and sorted() are        *)
(* computed character by character.  A Python tuple is a sequence, a dict  *)
(* (insertion ordered) is a sequence of its values, each carrying its key  *)
(* in the field ID.  None is the string "None"; a csv field that holds None *)
(* is the sequence <<None>>, which is no str.                              *)
(***************************************************************************)
EXTENDS Integers, Sequences, FiniteSets, TLC

VARIABLES
    pc,         \* position of the program: "start", "menu", a prompt,
                \* "exited", or "raised" after an uncaught exception
    employees,  \* self._employees
    file,       \* the backing file self.filename: [exists, rows]
    loc,        \* local variables of the handler that is running or ran last
    inp,        \* the line most recently read by input()
    out         \* what the last step printed

vars == <<pc, employees, file, loc, inp, out>>

----------------------------------------------------------------------------
(* Bounds of the model. *)

\* The backing file found at start-up holds at most this many data rows.
MaxFileRows == 2

----------------------------------------------------------------------------
(* Characters and str methods. *)

None == "None"

Whitespace == {" "}

DigitChars == <<"0", "1", "2", "3", "4", "5", "6", "7", "8", "9">>

UpperLetters ==
    <<"A", "B", "C", "D", "E", "F", "G", "H", "I", "J", "K", "L", "M",
      "N", "O", "P", "Q", "R", "S", "T", "U", "V", "W", "X", "Y", "Z">>

LowerLetters ==
    <<"a", "b", "c", "d", "e", "f", "g", "h", "i", "j", "k", "l", "m",
      "n", "o", "p", "q", "r", "s", "t", "u", "v", "w", "x", "y", "z">>

Range(s) == {s[i] : i \in DOMAIN s}

Digits == Range(DigitChars)

Letters == Range(UpperLetters) \cup Range(LowerLetters)

\* The characters of the model in code point order (the order of str < str).
CodeOrder ==
    <<" ", "%", "+", "-", ".">> \o DigitChars \o <<"@">> \o UpperLetters
        \o <<"_">> \o LowerLetters

Ord(c) == CHOOSE i \in DOMAIN CodeOrder : CodeOrder[i] = c

SetMin(S) == CHOOSE x \in S : \A y \in S : x <= y

SetMax(S) == CHOOSE x \in S : \A y \in S : x >= y

\* str.strip()
strip(s) ==
    LET keep == {i \in DOMAIN s : s[i] \notin Whitespace}
    IN  IF keep = {} THEN <<>> ELSE SubSeq(s, SetMin(keep), SetMax(keep))

UpperChar(c) ==
    IF \E i \in DOMAIN LowerLetters : LowerLetters[i] = c
    THEN UpperLetters[CHOOSE i \in DOMAIN LowerLetters : LowerLetters[i] = c]
    ELSE c

\* str.upper()
upper(s) == [i \in DOMAIN s |-> UpperChar(s[i])]

\* a < b on str: lexicographic by code point
str_less(a, b) ==
    \E k \in 1..(Len(a) + 1) :
        /\ k <= Len(b)
        /\ \A i \in 1..(k - 1) : a[i] = b[i]
        /\ \/ k = Len(a) + 1
           \/ Ord(a[k]) < Ord(b[k])

RECURSIVE SortSet(_)
\* sorted(): the strings of S in ascending order
SortSet(S) ==
    IF S = {} THEN <<>>
    ELSE LET m == CHOOSE x \in S : \A y \in S : x = y \/ str_less(x, y)
         IN  <<m>> \o SortSet(S \ {m})

----------------------------------------------------------------------------
(* Python float: float(str) and str(float).                                *)
(* A finite float is (-1)^neg * n / 10^d with no trailing zero in n when   *)
(* d > 0; the decimal strings of the model have few digits, for which      *)
(* float() followed by repr() gives back the shortest decimal form.        *)
(* Exponent notation and digit-group underscores are not modelled: no      *)
(* string of the model uses them and every value of the model lies in the  *)
(* range where repr() prints plain decimals.                               *)

NaN == [k |-> "nan", neg |-> FALSE, n |-> 0, d |-> 0]

Inf(neg) == [k |-> "inf", neg |-> neg, n |-> 0, d |-> 0]

RECURSIVE Fin(_, _, _)
Fin(neg, n, d) ==
    IF d > 0 /\ n % 10 = 0 THEN Fin(neg, n \div 10, d - 1)
    ELSE [k |-> "fin", neg |-> neg, n |-> n, d |-> d]

DigitVal(c) == (CHOOSE i \in DOMAIN DigitChars : DigitChars[i] = c) - 1

RECURSIVE ToNat(_)
ToNat(ds) ==
    IF ds = <<>> THEN 0
    ELSE ToNat(SubSeq(ds, 1, Len(ds) - 1)) * 10 + DigitVal(ds[Len(ds)])

RECURSIVE NatStr(_)
NatStr(n) ==
    IF n < 10 THEN <<DigitChars[n + 1]>>
    ELSE NatStr(n \div 10) \o <<DigitChars[(n % 10) + 1]>>

RECURSIVE Pow10(_)
Pow10(d) == IF d = 0 THEN 1 ELSE 10 * Pow10(d - 1)

RECURSIVE ZeroPad(_, _)
ZeroPad(s, width) == IF Len(s) >= width THEN s ELSE ZeroPad(<<"0">> \o s, width)

AllIn(s, chars) == \A i \in DOMAIN s : s[i] \in chars

\* float(s): [ok |-> TRUE, value |-> the float], or ok = FALSE for ValueError
float(s) ==
    LET t      == strip(s)
        signed == Len(t) > 0 /\ t[1] \in {"+", "-"}
        neg    == signed /\ t[1] = "-"
        body   == IF signed THEN Tail(t) ELSE t
        dots   == {i \in DOMAIN body : body[i] = "."}
        dot    == IF dots = {} THEN Len(body) + 1 ELSE SetMin(dots)
        ip     == SubSeq(body, 1, dot - 1)
        fp     == SubSeq(body, dot + 1, Len(body))
    IN  IF upper(body) = <<"N", "A", "N">>
        THEN [ok |-> TRUE, value |-> NaN]
        ELSE IF upper(body) \in {<<"I", "N", "F">>,
                                 <<"I", "N", "F", "I", "N", "I", "T", "Y">>}
        THEN [ok |-> TRUE, value |-> Inf(neg)]
        ELSE IF /\ Cardinality(dots) <= 1
                /\ AllIn(ip, Digits)
                /\ AllIn(fp, Digits)
                /\ Len(ip) + Len(fp) > 0
        THEN [ok |-> TRUE, value |-> Fin(neg, ToNat(ip \o fp), Len(fp))]
        ELSE [ok |-> FALSE, value |-> NaN]

\* x <= 0 on floats: every comparison with nan is False
FloatLeqZero(x) ==
    CASE x.k = "nan" -> FALSE
      [] x.k = "inf" -> x.neg
      [] OTHER       -> x.neg \/ x.n = 0

\* x > 0 on floats
FloatGtZero(x) ==
    CASE x.k = "nan" -> FALSE
      [] x.k = "inf" -> ~x.neg
      [] OTHER       -> ~x.neg /\ x.n > 0

\* x == y on floats: nan equals nothing, -0.0 equals 0.0
FloatEq(x, y) ==
    CASE x.k = "nan" \/ y.k = "nan" -> FALSE
      [] x.k = "fin" /\ y.k = "fin" /\ x.n = 0 /\ y.n = 0 -> TRUE
      [] OTHER -> x = y

float_str_drops_fraction(x) ==
    LET sign == IF x.neg THEN <<"-">> ELSE <<>>
    IN  CASE x.k = "nan" -> <<"n", "a", "n">>
          [] x.k = "inf" -> sign \o <<"i", "n", "f">>
          [] OTHER -> sign \o NatStr(x.n \div Pow10(x.d))

\* str(x) of a float x, as csv.writer writes a non-string field
float_str(x) ==
    LET sign == IF x.neg THEN <<"-">> ELSE <<>>
    IN  CASE x.k = "nan" -> <<"n", "a", "n">>
          [] x.k = "inf" -> sign \o <<"i", "n", "f">>
          [] OTHER ->
                sign \o NatStr(x.n \div Pow10(x.d)) \o <<".">>
                     \o (IF x.d = 0 THEN <<"0">>
                         ELSE ZeroPad(NatStr(x.n % Pow10(x.d)), x.d))

----------------------------------------------------------------------------
(* Validation functions.  Each returns the tuple the Python function       *)
(* returns; the messages are written without the interpolated values.      *)

EmailLocalChars == Letters \cup Digits \cup {".", "_", "%", "+", "-"}

EmailDomainChars == Letters \cup Digits \cup {".", "-"}

\* re.fullmatch(r'^[a-zA-Z0-9._%+-]+@[a-zA-Z0-9.-]+\.[a-zA-Z]{2,}$', s)
EmailPatternMatches(s) ==
    \E i \in DOMAIN s, j \in DOMAIN s :
        /\ s[i] = "@"
        /\ s[j] = "."
        /\ 1 < i
        /\ i + 1 < j
        /\ j + 2 <= Len(s)
        /\ AllIn(SubSeq(s, 1, i - 1), EmailLocalChars)
        /\ AllIn(SubSeq(s, i + 1, j - 1), EmailDomainChars)
        /\ AllIn(SubSeq(s, j + 1, Len(s)), Letters)

validate_email(email) ==
    IF email = <<>> \/ strip(email) = <<>>
    THEN <<FALSE, "Email cannot be empty">>
    ELSE IF ~EmailPatternMatches(strip(email))
    THEN <<FALSE, "Invalid email format">>
    ELSE <<TRUE, None>>

validate_salary(salary) ==
    IF salary = <<>> \/ strip(salary) = <<>>
    THEN <<FALSE, None, "Salary cannot be empty">>
    ELSE IF ~float(salary).ok
    THEN <<FALSE, None, "Salary must be a valid number">>
    ELSE IF FloatLeqZero(float(salary).value)
    THEN <<FALSE, None, "Salary must be greater than 0">>
    ELSE <<TRUE, float(salary).value, None>>

validate_required_field(value, field_name) ==
    IF value = <<>> \/ strip(value) = <<>>
    THEN <<FALSE, field_name \o " cannot be empty">>
    ELSE <<TRUE, None>>

validate_employee_id_no_duplicate_check(emp_id, existing_ids) ==
    IF emp_id = <<>> \/ strip(emp_id) = <<>>
    THEN <<FALSE, "Employee ID cannot be empty">>
    ELSE <<TRUE, None>>

validate_employee_id(emp_id, existing_ids) ==
    IF emp_id = <<>> \/ strip(emp_id) = <<>>
    THEN <<FALSE, "Employee ID cannot be empty">>
    ELSE IF strip(emp_id) \in existing_ids
    THEN <<FALSE, "Employee with ID already exists">>
    ELSE <<TRUE, None>>

validate_unique_email_no_duplicate_check(email, existing_emails) ==
    IF ~validate_email(email)[1]
    THEN <<FALSE, validate_email(email)[2]>>
    ELSE <<TRUE, None>>

validate_unique_email(email, existing_emails) ==
    IF ~validate_email(email)[1]
    THEN <<FALSE, validate_email(email)[2]>>
    ELSE IF strip(email) \in existing_emails
    THEN <<FALSE, "Email is already registered to another employee">>
    ELSE <<TRUE, None>>

----------------------------------------------------------------------------
(* Strings of the model. *)

E1 == <<"E", "1">>
E2 == <<"E", "2">>
Ana == <<"A", "n", "a">>
Bo == <<"B", "o">>
Eng == <<"E", "n", "g">>
Five == <<"5">>
FivePointZero == <<"5", ".", "0">>
TwoPointFive == <<"2", ".", "5">>
Zero == <<"0">>
MinusFive == <<"-", "5">>
Abc == <<"a", "b", "c">>
Nan == <<"n", "a", "n">>
MailA == <<"a", "@", "b", ".", "c", "o">>
MailUpperA == <<"A", "@", "b", ".", "c", "o">>
MailNoTld == <<"a", "@", "b">>
YES == <<"Y", "E", "S">>
Yes == <<"y", "e", "s">>
Space == <<" ">>

\* The lines the operator may type at each prompt.
MenuInputs == {<<"1">>, <<"2">>, <<"3">>, <<"4">>, <<"5">>, <<"6">>, <<"7">>}
IdInputs == {E1, E2, Space \o E1, <<>>}
NameInputs == {Ana, Bo, Space}
PositionInputs == {Eng, <<>>}
SalaryInputs == {Five, Nan, Zero, Abc, <<>>}
EmailInputs == {MailA, MailUpperA, MailNoTld, <<>>}
ConfirmInputs == {YES, Yes, Space \o YES \o Space, <<"N", "O">>, <<>>}

----------------------------------------------------------------------------
(* dict operations on self._employees. *)

Keys(d) == {d[i].ID : i \in DOMAIN d}

Emails(d) == {d[i].Email : i \in DOMAIN d}

\* d[k]
dict_get(d, k) == d[CHOOSE i \in DOMAIN d : d[i].ID = k]

\* d[k] = v: an existing key keeps its place, a new key goes last
dict_set(d, k, v) ==
    IF k \in Keys(d)
    THEN [i \in DOMAIN d |-> IF d[i].ID = k THEN v ELSE d[i]]
    ELSE Append(d, v)

\* del d[k]
dict_del(d, k) == SelectSeq(d, LAMBDA e : e.ID # k)

Employee_name_and_position_swapped(emp_id, name, position, salary, email) ==
    [ID |-> emp_id, Name |-> position, Position |-> name,
     Salary |-> salary, Email |-> email]

Employee(emp_id, name, position, salary, email) ==
    [ID |-> emp_id, Name |-> name, Position |-> position,
     Salary |-> salary, Email |-> email]

----------------------------------------------------------------------------
(* The backing file: csv rows, the first of them the header.  The quoting  *)
(* of a field is the csv module's and is not modelled: a row is the        *)
(* sequence of its fields.  A row of the model has the five columns of     *)
(* FIELDNAMES, or the first four of them (a row that lacks the email).     *)

FIELDNAMES ==
    << <<"I", "D">>, <<"N", "a", "m", "e">>,
       <<"P", "o", "s", "i", "t", "i", "o", "n">>,
       <<"S", "a", "l", "a", "r", "y">>, <<"E", "m", "a", "i", "l">> >>

NoFile == [exists |-> FALSE, rows |-> <<>>]

FileOf(rows) == [exists |-> TRUE, rows |-> rows]

\* csv.DictReader's restval: the value of a column the row is too short for
restval == <<None>>

\* csv.DictReader: the data rows, each as a dict keyed by the header
DictReader(rows) ==
    [i \in 1..(Len(rows) - 1) |->
        [ID |-> rows[i + 1][1], Name |-> rows[i + 1][2],
         Position |-> rows[i + 1][3], Salary |-> rows[i + 1][4],
         Email |-> IF Len(rows[i + 1]) >= 5 THEN rows[i + 1][5]
                   ELSE restval]]

\* csv.writer writes None as the empty field
CsvField(v) == IF v = restval THEN <<>> ELSE v

\* csv.DictWriter.writerow of one employee
WriteRow(emp) ==
    <<emp.ID, emp.Name, emp.Position, float_str(emp.Salary),
      CsvField(emp.Email)>>

RECURSIVE LoadRows(_, _, _)
\* The loop of _load_from_csv from row i on: the dict built, and whether
\* float() raised (the rows read before that stay in the dict).
LoadRows(reader, i, emps) ==
    IF i > Len(reader) THEN [employees |-> emps, raised |-> FALSE]
    ELSE IF reader[i].ID = <<>> THEN LoadRows(reader, i + 1, emps)
    ELSE IF ~float(reader[i].Salary).ok
    THEN [employees |-> emps, raised |-> TRUE]
    ELSE LoadRows(reader, i + 1,
                  dict_set(emps, reader[i].ID,
                           Employee(reader[i].ID, reader[i].Name,
                                    reader[i].Position,
                                    float(reader[i].Salary).value,
                                    reader[i].Email)))

\* The rows _save_to_csv writes when nothing fails.
SavedRowsUnsorted(emps) ==
    <<FIELDNAMES>> \o [i \in DOMAIN emps |-> WriteRow(emps[i])]

SavedRows(emps) ==
    <<FIELDNAMES>> \o
        [i \in DOMAIN emps |-> WriteRow(dict_get(emps, SortSet(Keys(emps))[i]))]

\* _save_to_csv: the outcomes [ok, file].  open(filename, 'w') truncates
\* the file and the rows go to the file object's buffer; when the flush of
\* the buffer raises, the file is left empty and the function returns
\* False.  For a file that does not exist the failure is that of open()
\* (no directory to create it in) and the file still does not exist.  (A
\* save whose open() raises on an existing file, leaving it as it was, is
\* not among the outcomes of the model.)
_save_to_csv(emps, f) ==
    {[ok |-> TRUE, file |-> FileOf(SavedRows(emps))],
     [ok |-> FALSE, file |-> IF f.exists THEN FileOf(<<>>) ELSE f]}

\* _create_csv_file: the outcomes [ok, file]
_create_csv_file(f) ==
    {[ok |-> TRUE, file |-> FileOf(<<FIELDNAMES>>)], [ok |-> FALSE, file |-> f]}

----------------------------------------------------------------------------
(* Prompt helpers: one pass of the loop, on the stripped line and the      *)
(* tuple its validator returned.  done = FALSE is the pass that prints the *)
(* error and prompts again.                                                *)

_prompt_until_valid(value, result) ==
    IF result[1]
    THEN [done |-> TRUE, error |-> None,
          value |-> IF Len(result) > 2 THEN result[2] ELSE value]
    ELSE [done |-> FALSE, error |-> result[Len(result)], value |-> value]

_get_optional_input(user_input, current_value, result) ==
    IF user_input = <<>>
    THEN [done |-> TRUE, error |-> None, value |-> current_value]
    ELSE IF result[1]
    THEN [done |-> TRUE, error |-> None,
          value |-> IF Len(result) > 2 THEN result[2] ELSE user_input]
    ELSE [done |-> FALSE, error |-> result[Len(result)], value |-> user_input]

----------------------------------------------------------------------------
(* What a step prints, and the locals of a handler. *)

Printed(msg) == [msg |-> msg, saveError |-> FALSE, shown |-> <<>>, total |-> 0]

Showing(msg, emps) ==
    [msg |-> msg, saveError |-> FALSE, shown |-> emps, total |-> 0]

\* The last message of a handler that saved: "Error saving data" was
\* printed before it when _save_to_csv returned False.
AfterSave(msg, ok) ==
    [msg |-> msg, saveError |-> ~ok, shown |-> <<>>, total |-> 0]

NoLines ==
    [ID |-> <<>>, Name |-> <<>>, Position |-> <<>>, Salary |-> <<>>,
     Email |-> <<>>]

\* lines: the stripped line each prompt of the running handler accepted
\* (<<>> for a prompt not passed yet and for a blank line).
NoLocals ==
    [emp_id |-> <<>>, name |-> <<>>, position |-> <<>>,
     salary |-> Fin(FALSE, 0, 0), email |-> <<>>, lines |-> NoLines]

AtPrompt == pc \notin {"start", "menu", "exited", "raised"}

----------------------------------------------------------------------------
(* Start-up files. *)

CandidateRows ==
    { <<E1, Ana, Eng, FivePointZero, MailA>>,
      <<E2, Bo, Eng, TwoPointFive, MailUpperA>>,
      <<E1, Bo, Eng, Five, MailUpperA>>,
      <<E2, Bo, Eng, Abc, MailUpperA>>,
      <<<<>>, Ana, Eng, FivePointZero, MailUpperA>>,
      <<E2, <<>>, Eng, MinusFive, MailA>>,
      <<E1, Ana, Eng, FivePointZero>> }

InitialFiles ==
    {NoFile, FileOf(<<>>)}
        \cup {FileOf(<<FIELDNAMES>> \o rs) :
                rs \in UNION {[1..n -> CandidateRows] : n \in 0..MaxFileRows}}

Init ==
    /\ pc = "start"
    /\ employees = <<>>
    /\ file \in InitialFiles
    /\ loc = NoLocals
    /\ inp = <<>>
    /\ out = Printed("")

----------------------------------------------------------------------------
(* EmployeeManager.__init__: _load_from_csv. *)

_load_from_csv ==
    /\ pc = "start"
    /\ pc' = "menu"
    /\ UNCHANGED <<loc, inp>>
    /\ IF ~file.exists
       THEN \* FileNotFoundError
            /\ employees' = <<>>
            /\ \E c \in _create_csv_file(file) : file' = c.file
            /\ out' = Printed("")
       ELSE \E open_raises \in BOOLEAN :
            LET r == LoadRows(DictReader(file.rows), 1, <<>>)
            IN  /\ file' = file
                /\ employees' = IF open_raises THEN <<>> ELSE r.employees
                /\ out' = IF open_raises \/ r.raised
                          THEN Printed("Error loading data")
                          ELSE Printed("")

----------------------------------------------------------------------------
(* EmployeeManager.run: the menu. *)

\* choice '1': add_employee starts
run_add ==
    /\ pc = "menu"
    /\ inp' = <<"1">>
    /\ pc' = "add_id"
    /\ loc' = NoLocals
    /\ out' = Printed("ADD NEW EMPLOYEE")
    /\ UNCHANGED <<employees, file>>

\* The values the format specification '<30' of the row's f-string cannot
\* format: str.__format__ takes it, NoneType.__format__ raises TypeError.
Unformattable(emps) == {i \in DOMAIN emps : emps[i].Email = restval}

\* choice '2'.  The loop prints the rows one by one; at the first row that
\* cannot be formatted the TypeError leaves view_all_employees and run(),
\* neither of which catches it, after the rows before it were printed and
\* before the total is.
view_all_employees ==
    /\ pc = "menu"
    /\ inp' = <<"2">>
    /\ IF employees = <<>>
       THEN /\ pc' = "menu"
            /\ out' = Printed("No employees found in the system.")
       ELSE IF Unformattable(employees) = {}
       THEN /\ pc' = "menu"
            /\ out' = [msg |-> "Total Employees", saveError |-> FALSE,
                       shown |-> employees, total |-> Len(employees)]
       ELSE /\ pc' = "raised"
            /\ out' = Showing("TypeError",
                         SubSeq(employees, 1,
                                SetMin(Unformattable(employees)) - 1))
    /\ UNCHANGED <<employees, file, loc>>

\* choices '3', '4' and '5': the handler returns at once on an empty dict,
\* and prompts for the ID otherwise
run_by_id ==
    /\ pc = "menu"
    /\ \E choice \in {<<"3">>, <<"4">>, <<"5">>} :
        /\ inp' = choice
        /\ IF employees = <<>>
           THEN /\ pc' = "menu"
                /\ out' = Printed("No employees in the system. Please add employees first.")
           ELSE /\ pc' = CASE choice = <<"3">> -> "upd_id"
                            [] choice = <<"4">> -> "del_id"
                            [] choice = <<"5">> -> "search_id"
                /\ out' = Printed("")
    /\ loc' = NoLocals
    /\ UNCHANGED <<employees, file>>

\* choice '6'
run_exit ==
    /\ pc = "menu"
    /\ inp' = <<"6">>
    /\ pc' = "exited"
    /\ out' = Printed("Goodbye!")
    /\ UNCHANGED <<employees, file, loc>>

\* any other choice
run_invalid ==
    /\ pc = "menu"
    /\ \E choice \in MenuInputs \ {<<"1">>, <<"2">>, <<"3">>, <<"4">>, <<"5">>, <<"6">>} :
        inp' = choice
    /\ pc' = "menu"
    /\ out' = Printed("Invalid choice! Please enter a number between 1 and 6.")
    /\ UNCHANGED <<employees, file, loc>>

----------------------------------------------------------------------------
(* add_employee: one step per pass of a _prompt_until_valid loop. *)

add_employee_id ==
    /\ pc = "add_id"
    /\ \E line \in IdInputs :
        LET value == strip(line)
            r == _prompt_until_valid(value,
                     validate_employee_id(value, Keys(employees)))
        IN  /\ inp' = line
            /\ pc' = IF r.done THEN "add_name" ELSE pc
            /\ loc' = IF r.done
                      THEN [loc EXCEPT !.emp_id = r.value, !.lines.ID = value]
                      ELSE loc
            /\ out' = IF r.done THEN Printed("") ELSE Printed(r.error)
    /\ UNCHANGED <<employees, file>>

add_employee_name ==
    /\ pc = "add_name"
    /\ \E line \in NameInputs :
        LET value == strip(line)
            r == _prompt_until_valid(value, validate_required_field(value, "Name"))
        IN  /\ inp' = line
            /\ pc' = IF r.done THEN "add_position" ELSE pc
            /\ loc' = IF r.done
                      THEN [loc EXCEPT !.name = r.value, !.lines.Name = value]
                      ELSE loc
            /\ out' = IF r.done THEN Printed("") ELSE Printed(r.error)
    /\ UNCHANGED <<employees, file>>

add_employee_position ==
    /\ pc = "add_position"
    /\ \E line \in PositionInputs :
        LET value == strip(line)
            r == _prompt_until_valid(value,
                     validate_required_field(value, "Position"))
        IN  /\ inp' = line
            /\ pc' = IF r.done THEN "add_salary" ELSE pc
            /\ loc' = IF r.done
                      THEN [loc EXCEPT !.position = r.value,
                                       !.lines.Position = value]
                      ELSE loc
            /\ out' = IF r.done THEN Printed("") ELSE Printed(r.error)
    /\ UNCHANGED <<employees, file>>

add_employee_salary ==
    /\ pc = "add_salary"
    /\ \E line \in SalaryInputs :
        LET value == strip(line)
            r == _prompt_until_valid(value, validate_salary(value))
        IN  /\ inp' = line
            /\ pc' = IF r.done THEN "add_email" ELSE pc
            /\ loc' = IF r.done
                      THEN [loc EXCEPT !.salary = r.value, !.lines.Salary = value]
                      ELSE loc
            /\ out' = IF r.done THEN Printed("") ELSE Printed(r.error)
    /\ UNCHANGED <<employees, file>>

\* The email prompt and, once it is passed, the insertion and the save.
add_employee_email ==
    /\ pc = "add_email"
    /\ \E line \in EmailInputs :
        LET value == strip(line)
            existing_emails == Emails(employees)
            r == _prompt_until_valid(value,
                     validate_unique_email(value, existing_emails))
        IN  /\ inp' = line
            /\ IF r.done
               THEN /\ employees' =
                         dict_set(employees, loc.emp_id,
                                  Employee(loc.emp_id, loc.name, loc.position,
                                           loc.salary, r.value))
                    /\ \E s \in _save_to_csv(employees', file) :
                         /\ file' = s.file
                         /\ out' = AfterSave("Employee added successfully!", s.ok)
                    /\ pc' = "menu"
                    /\ loc' = [loc EXCEPT !.email = r.value, !.lines.Email = value]
               ELSE /\ out' = Printed(r.error)
                    /\ UNCHANGED <<pc, employees, file, loc>>

add_employee ==
    \/ add_employee_id
    \/ add_employee_name
    \/ add_employee_position
    \/ add_employee_salary
    \/ add_employee_email

----------------------------------------------------------------------------
(* update_employee: the ID prompt, then one step per pass of a             *)
(* _get_optional_input loop.                                               *)

update_employee_id ==
    /\ pc = "upd_id"
    /\ \E line \in IdInputs :
        LET emp_id == strip(line)
        IN  /\ inp' = line
            /\ IF emp_id \notin Keys(employees)
               THEN /\ pc' = "menu"
                    /\ loc' = [loc EXCEPT !.emp_id = emp_id]
                    /\ out' = Printed("Employee not found!")
               ELSE /\ pc' = "upd_name"
                    /\ loc' = [loc EXCEPT !.emp_id = emp_id, !.lines.ID = emp_id]
                    /\ out' = Showing("Current Details",
                                      <<dict_get(employees, emp_id)>>)
    /\ UNCHANGED <<employees, file>>

update_employee_name ==
    /\ pc = "upd_name"
    /\ \E line \in NameInputs :
        LET user_input == strip(line)
            employee == dict_get(employees, loc.emp_id)
            r == _get_optional_input(user_input, employee.Name,
                     validate_required_field(user_input, "Name"))
        IN  /\ inp' = line
            /\ pc' = IF r.done THEN "upd_position" ELSE pc
            /\ loc' = IF r.done
                      THEN [loc EXCEPT !.name = r.value,
                                       !.lines.Name = user_input]
                      ELSE loc
            /\ out' = IF r.done THEN Printed("") ELSE Printed(r.error)
    /\ UNCHANGED <<employees, file>>

update_employee_position_keeps_name ==
    /\ pc = "upd_position"
    /\ \E line \in PositionInputs :
        LET user_input == strip(line)
            employee == dict_get(employees, loc.emp_id)
            r == _get_optional_input(user_input, employee.Name,
                     validate_required_field(user_input, "Position"))
        IN  /\ inp' = line
            /\ pc' = IF r.done THEN "upd_salary" ELSE pc
            /\ loc' = IF r.done
                      THEN [loc EXCEPT !.position = r.value,
                                       !.lines.Position = user_input]
                      ELSE loc
            /\ out' = IF r.done THEN Printed("") ELSE Printed(r.error)
    /\ UNCHANGED <<employees, file>>

update_employee_position ==
    /\ pc = "upd_position"
    /\ \E line \in PositionInputs :
        LET user_input == strip(line)
            employee == dict_get(employees, loc.emp_id)
            r == _get_optional_input(user_input, employee.Position,
                     validate_required_field(user_input, "Position"))
        IN  /\ inp' = line
            /\ pc' = IF r.done THEN "upd_salary" ELSE pc
            /\ loc' = IF r.done
                      THEN [loc EXCEPT !.position = r.value,
                                       !.lines.Position = user_input]
                      ELSE loc
            /\ out' = IF r.done THEN Printed("") ELSE Printed(r.error)
    /\ UNCHANGED <<employees, file>>

update_employee_salary ==
    /\ pc = "upd_salary"
    /\ \E line \in SalaryInputs :
        LET user_input == strip(line)
            employee == dict_get(employees, loc.emp_id)
            r == _get_optional_input(user_input, employee.Salary,
                     validate_salary(user_input))
        IN  /\ inp' = line
            /\ pc' = IF r.done THEN "upd_email" ELSE pc
            /\ loc' = IF r.done
                      THEN [loc EXCEPT !.salary = r.value,
                                       !.lines.Salary = user_input]
                      ELSE loc
            /\ out' = IF r.done THEN Printed("") ELSE Printed(r.error)
    /\ UNCHANGED <<employees, file>>

\* The emails of the employees other than emp_id.
OtherEmails(emps, emp_id) ==
    {emps[i].Email : i \in {j \in DOMAIN emps : emps[j].ID # emp_id}}

\* The email prompt and, once it is passed, the replacement and the save.
update_employee_email ==
    /\ pc = "upd_email"
    /\ \E line \in EmailInputs :
        LET user_input == strip(line)
            employee == dict_get(employees, loc.emp_id)
            existing_emails == OtherEmails(employees, loc.emp_id)
            r == _get_optional_input(user_input, employee.Email,
                     validate_unique_email(user_input, existing_emails))
        IN  /\ inp' = line
            /\ IF r.done
               THEN /\ employees' =
                         dict_set(employees, loc.emp_id,
                                  Employee(loc.emp_id, loc.name, loc.position,
                                           loc.salary, r.value))
                    /\ \E s \in _save_to_csv(employees', file) :
                         /\ file' = s.file
                         /\ out' = AfterSave("Employee updated successfully!", s.ok)
                    /\ pc' = "menu"
                    /\ loc' = [loc EXCEPT !.email = r.value,
                                         !.lines.Email = user_input]
               ELSE /\ out' = Printed(r.error)
                    /\ UNCHANGED <<pc, employees, file, loc>>

update_employee ==
    \/ update_employee_id
    \/ update_employee_name
    \/ update_employee_position
    \/ update_employee_salary
    \/ update_employee_email

----------------------------------------------------------------------------
(* delete_employee and search_employee. *)

delete_employee_id_without_return ==
    /\ pc = "del_id"
    /\ \E line \in IdInputs :
        /\ inp' = line
        /\ loc' = [loc EXCEPT !.emp_id = strip(line), !.lines.ID = strip(line)]
    /\ pc' = "del_confirm"
    /\ out' = Printed("Are you sure you want to delete this employee?")
    /\ UNCHANGED <<employees, file>>

delete_employee_id ==
    /\ pc = "del_id"
    /\ \E line \in IdInputs :
        LET emp_id == strip(line)
        IN  /\ inp' = line
            /\ IF emp_id \notin Keys(employees)
               THEN /\ pc' = "menu"
                    /\ loc' = [loc EXCEPT !.emp_id = emp_id]
                    /\ out' = Printed("Employee not found!")
               ELSE /\ pc' = "del_confirm"
                    /\ loc' = [loc EXCEPT !.emp_id = emp_id, !.lines.ID = emp_id]
                    /\ out' = Showing("Are you sure you want to delete this employee?",
                                      <<dict_get(employees, emp_id)>>)
    /\ UNCHANGED <<employees, file>>

Confirmed_by_any_answer(line) == strip(line) # <<>>

\* confirm == 'YES'
Confirmed(line) == upper(strip(line)) = YES

delete_employee_confirm ==
    /\ pc = "del_confirm"
    /\ \E line \in ConfirmInputs :
        /\ inp' = line
        /\ IF Confirmed(line)
           THEN /\ employees' = dict_del(employees, loc.emp_id)
                /\ \E s \in _save_to_csv(employees', file) :
                     /\ file' = s.file
                     /\ out' = AfterSave("Employee deleted successfully!", s.ok)
           ELSE /\ out' = Printed("Deletion cancelled.")
                /\ UNCHANGED <<employees, file>>
    /\ pc' = "menu"
    /\ loc' = loc

delete_employee ==
    \/ delete_employee_id
    \/ delete_employee_confirm

search_employee ==
    /\ pc = "search_id"
    /\ \E line \in IdInputs :
        LET emp_id == strip(line)
        IN  /\ inp' = line
            /\ loc' = [loc EXCEPT !.emp_id = emp_id]
            /\ out' = IF emp_id \notin Keys(employees)
                      THEN Printed("Employee not found!")
                      ELSE Showing("EMPLOYEE FOUND:",
                                   <<dict_get(employees, emp_id)>>)
    /\ pc' = "menu"
    /\ UNCHANGED <<employees, file>>

----------------------------------------------------------------------------

Next ==
    \/ _load_from_csv
    \/ run_add
    \/ view_all_employees
    \/ run_by_id
    \/ run_exit
    \/ run_invalid
    \/ add_employee
    \/ update_employee
    \/ delete_employee
    \/ search_employee

Spec == Init /\ [][Next]_vars

----------------------------------------------------------------------------
(* Properties. *)

MutationMessages ==
    {"Employee added successfully!", "Employee updated successfully!",
     "Employee deleted successfully!"}

UniqueEmails(d) ==
    \A i \in DOMAIN d, j \in DOMAIN d : i # j => d[i].Email # d[j].Email

\* C1: a step of add, update or delete taken from a store in which no two
\* records share an email leads to a store in which no two records share an
\* email (exact, case-sensitive comparison); at the email prompt of add a
\* line whose stripped value is the email of any record is rejected and
\* nothing changes; at the email prompt of update a line whose stripped
\* value is the email of another record is rejected and nothing changes,
\* while the record's own (well-formed) email is accepted and kept.
C1_EmailsStayUnique ==
    [][ (pc # "start" /\ UniqueEmails(employees)) =>
          /\ UniqueEmails(employees')
          /\ (pc = "add_email"
                /\ \E i \in DOMAIN employees : employees[i].Email = strip(inp'))
             => (pc' = "add_email" /\ employees' = employees /\ file' = file)
          /\ (pc = "upd_email"
                /\ \E i \in DOMAIN employees :
                     /\ employees[i].ID # loc.emp_id
                     /\ employees[i].Email = strip(inp'))
             => (pc' = "upd_email" /\ employees' = employees /\ file' = file)
          /\ (pc = "upd_email"
                /\ strip(inp') = dict_get(employees, loc.emp_id).Email
                /\ EmailPatternMatches(strip(inp')))
             => /\ pc' = "menu"
                /\ dict_get(employees', loc.emp_id).Email = strip(inp')
      ]_vars

\* C1 witness: add has just rejected the email of a stored record.
C1_Witness ==
    /\ pc = "add_email"
    /\ out.msg = "Email is already registered to another employee"
    /\ strip(inp) \in Emails(employees)
    /\ UniqueEmails(employees)

\* C2: at the ID prompt of add, a line whose stripped value is a key of the
\* store is rejected: the prompt is repeated and the dict and the file are
\* as before; and the insertion that ends add never replaces or changes a
\* record that was in the store.
C2_DuplicateIdRejected ==
    [][ /\ (pc = "add_id" /\ strip(inp') \in Keys(employees))
           => /\ pc' = "add_id"
              /\ out'.msg = "Employee with ID already exists"
              /\ employees' = employees
              /\ file' = file
        /\ (pc = "add_email" /\ pc' = "menu")
           => /\ loc.emp_id \notin Keys(employees)
              /\ Len(employees') = Len(employees) + 1
              /\ \A i \in DOMAIN employees : employees'[i] = employees[i]
      ]_vars

\* C2 witness: add has just rejected " E1", whose stripped value is a key.
C2_Witness ==
    /\ pc = "add_id"
    /\ out.msg = "Employee with ID already exists"
    /\ inp = Space \o E1
    /\ E1 \in Keys(employees)

\* C3 (as claimed): a load that reported an error leaves the dict empty.
C3_FailedLoadLeavesStoreEmpty ==
    (pc = "menu" /\ out.msg = "Error loading data") => employees = <<>>

\* The file holds the header row, then one row per record of the dict and
\* nothing else, in ascending order of ID.
FileHoldsStore ==
    /\ file.exists
    /\ Len(file.rows) = Len(employees) + 1
    /\ file.rows[1] = FIELDNAMES
    /\ \A i \in DOMAIN employees :
         \E j \in 2..Len(file.rows) : file.rows[j] = WriteRow(employees[i])
    /\ \A i \in 2..Len(file.rows), j \in 2..Len(file.rows) :
         i < j => str_less(file.rows[i][1], file.rows[j][1])

ValidRecord(e) ==
    /\ FloatGtZero(e.Salary)
    /\ strip(e.Name) # <<>>
    /\ strip(e.Position) # <<>>
    /\ e.Email # restval
    /\ strip(e.Email) # <<>>

\* C5 (as claimed): once the store is loaded, every record has a salary
\* greater than zero and a name, a position and an email that are not
\* blank.
C5_EveryRecordValid ==
    pc # "start" => \A i \in DOMAIN employees : ValidRecord(employees[i])

\* C6 (as claimed): at the confirmation prompt of delete any line other
\* than exactly YES leaves the dict and the file unchanged.
C6_OnlyExactYesDeletes ==
    [][ (pc = "del_confirm" /\ inp' # YES)
          => (employees' = employees /\ file' = file) ]_vars

\* C6 (amended): at the confirmation prompt of delete the record is removed
\* (and only that record) exactly when the line, stripped and upper-cased,
\* equals YES; any other line leaves the dict and the file unchanged; a key
\* that is not in the dict enters it only by the insertion that ends add,
\* and search reports an ID as not found exactly when it is not a key.
C6_DeleteNeedsConfirmation ==
    [][ /\ (pc = "del_confirm" /\ upper(strip(inp')) = YES)
           => /\ loc.emp_id \notin Keys(employees')
              /\ Keys(employees') = Keys(employees) \ {loc.emp_id}
              /\ \A k \in Keys(employees') :
                   dict_get(employees', k) = dict_get(employees, k)
        /\ (pc = "del_confirm" /\ upper(strip(inp')) # YES)
           => (employees' = employees /\ file' = file)
        /\ (pc # "start" /\ Keys(employees') \ Keys(employees) # {})
           => (pc = "add_email" /\ Keys(employees') \ Keys(employees) = {loc.emp_id})
        /\ (pc = "search_id")
           => (out'.msg = "Employee not found!"
                 <=> strip(inp') \notin Keys(employees))
      ]_vars

\* C6 witness: a delete confirmed with "yes" has removed E1.
C6_Witness ==
    /\ pc = "menu"
    /\ out.msg = "Employee deleted successfully!"
    /\ inp = Yes
    /\ E1 \notin Keys(employees)
    /\ E2 \in Keys(employees)

UpdatePrompts == {"upd_name", "upd_position", "upd_salary", "upd_email"}

\* C7: the replacement that ends update leaves the keys, their order and
\* every other record as they were, and in the updated record the ID is
\* kept and each of name, position, salary and email is the old value when
\* the line read for it was blank and the value entered (the parsed number
\* for salary) otherwise; no step of update before it changes the dict, and
\* a blank line is accepted at every prompt of update.
C7_UpdateChangesOnlyEnteredFields ==
    [][ /\ (pc = "upd_email" /\ pc' = "menu")
           => LET old == dict_get(employees, loc.emp_id)
                  new == dict_get(employees', loc.emp_id)
              IN  /\ [i \in DOMAIN employees' |-> employees'[i].ID]
                       = [i \in DOMAIN employees |-> employees[i].ID]
                  /\ \A i \in DOMAIN employees :
                       employees[i].ID # loc.emp_id
                           => employees'[i] = employees[i]
                  /\ new.ID = old.ID
                  /\ new.Name = IF loc.lines.Name = <<>> THEN old.Name
                                ELSE loc.lines.Name
                  /\ new.Position = IF loc.lines.Position = <<>>
                                    THEN old.Position
                                    ELSE loc.lines.Position
                  /\ new.Salary = IF loc.lines.Salary = <<>> THEN old.Salary
                                  ELSE float(loc.lines.Salary).value
                  /\ new.Email = IF strip(inp') = <<>> THEN old.Email
                                 ELSE strip(inp')
        /\ (pc \in UpdatePrompts /\ pc' # "menu") => employees' = employees
        /\ (pc \in UpdatePrompts /\ strip(inp') = <<>>) => pc' # pc
        /\ (pc \in UpdatePrompts /\ pc' # pc)
           => /\ pc = "upd_name" => loc'.lines.Name = strip(inp')
              /\ pc = "upd_position" => loc'.lines.Position = strip(inp')
              /\ pc = "upd_salary" => loc'.lines.Salary = strip(inp')
              /\ pc = "upd_email" => loc'.lines.Email = strip(inp')
      ]_vars

\* C7 witness: an update of E1 in a store of two for which only a name was
\* entered has completed.
C7_Witness ==
    /\ pc = "menu"
    /\ out.msg = "Employee updated successfully!"
    /\ loc.lines = [ID |-> E1, Name |-> Bo, Position |-> <<>>,
                    Salary |-> <<>>, Email |-> <<>>]
    /\ Len(employees) = 2
    /\ dict_get(employees, E1).Name = Bo

\* C8: for a store whose records are all valid, the file a successful
\* _save_to_csv writes is loaded by _load_from_csv without error into a
\* dict with the same keys and, for each key, the same name, position and
\* email and an equal salary.
C8_SaveLoadRoundTrip ==
    (pc # "start" /\ \A i \in DOMAIN employees : ValidRecord(employees[i]))
        => \A s \in _save_to_csv(employees, file) :
             s.ok =>
               LET r == LoadRows(DictReader(s.file.rows), 1, <<>>)
               IN  /\ ~r.raised
                   /\ Len(r.employees) = Len(employees)
                   /\ Keys(r.employees) = Keys(employees)
                   /\ \A k \in Keys(employees) :
                        LET a == dict_get(employees, k)
                            b == dict_get(r.employees, k)
                        IN  /\ b.ID = k
                            /\ b.Name = a.Name
                            /\ b.Position = a.Position
                            /\ FloatEq(b.Salary, a.Salary)
                            /\ b.Email = a.Email

\* C8 witness: a saved store of two valid records, inserted in the order
\* E2, E1, one of them with a salary that has a fraction.
C8_Witness ==
    /\ pc = "menu"
    /\ out.msg \in MutationMessages
    /\ ~out.saveError
    /\ Len(employees) = 2
    /\ employees[1].ID = E2
    /\ \A i \in DOMAIN employees : ValidRecord(employees[i])
    /\ \E i \in DOMAIN employees : employees[i].Salary.d > 0
    /\ file = FileOf(SavedRows(employees))

AddPrompts == {"add_id", "add_name", "add_position", "add_salary", "add_email"}

\* C9: at each prompt of add a line that passes the validation is accepted
\* (a new non-blank ID, a non-blank name and position, a number greater
\* than zero, a well-formed email no record holds); the insertion that ends
\* add reports success and stores under the entered ID the record of the
\* entered ID, name, position and email and of the number float() parses
\* from the entered salary; and search of an ID of the store shows the
\* record stored under it.
C9_AddThenFind ==
    [][ /\ (pc = "add_id" /\ strip(inp') # <<>>
              /\ strip(inp') \notin Keys(employees)) => pc' = "add_name"
        /\ (pc = "add_name" /\ strip(inp') # <<>>) => pc' = "add_position"
        /\ (pc = "add_position" /\ strip(inp') # <<>>) => pc' = "add_salary"
        /\ (pc = "add_salary" /\ float(strip(inp')).ok
              /\ FloatGtZero(float(strip(inp')).value)) => pc' = "add_email"
        /\ (pc = "add_email" /\ EmailPatternMatches(strip(inp'))
              /\ strip(inp') \notin Emails(employees)) => pc' = "menu"
        /\ (pc \in AddPrompts /\ pc' # pc)
           => /\ pc = "add_id" => loc'.lines.ID = strip(inp')
              /\ pc = "add_name" => loc'.lines.Name = strip(inp')
              /\ pc = "add_position" => loc'.lines.Position = strip(inp')
              /\ pc = "add_salary" => loc'.lines.Salary = strip(inp')
              /\ pc = "add_email" => loc'.lines.Email = strip(inp')
              /\ pc # "add_id" => loc'.lines.ID = loc.lines.ID
              /\ pc \notin {"add_id", "add_name"}
                    => loc'.lines.Name = loc.lines.Name
              /\ pc \in {"add_salary", "add_email"}
                    => loc'.lines.Position = loc.lines.Position
              /\ pc = "add_email" => loc'.lines.Salary = loc.lines.Salary
        /\ (pc = "add_email" /\ pc' = "menu")
           => /\ out'.msg = "Employee added successfully!"
              /\ loc'.lines.ID \in Keys(employees')
              /\ dict_get(employees', loc'.lines.ID)
                   = [ID |-> loc'.lines.ID, Name |-> loc'.lines.Name,
                      Position |-> loc'.lines.Position,
                      Salary |-> float(loc'.lines.Salary).value,
                      Email |-> loc'.lines.Email]
        /\ (pc = "search_id" /\ strip(inp') \in Keys(employees))
           => /\ out'.msg = "EMPLOYEE FOUND:"
              /\ out'.shown = <<dict_get(employees, strip(inp'))>>
      ]_vars

\* C9 witness: add of (E1, Ana, Eng, "5", a@b.co) has completed and the
\* store holds E1 with the salary 5.0.
C9_Witness ==
    /\ pc = "menu"
    /\ out.msg = "Employee added successfully!"
    /\ loc.lines = [ID |-> E1, Name |-> Ana, Position |-> Eng,
                    Salary |-> Five, Email |-> MailA]
    /\ dict_get(employees, E1) =
         [ID |-> E1, Name |-> Ana, Position |-> Eng,
          Salary |-> Fin(FALSE, 5, 0), Email |-> MailA]

\* C10: at the ID prompt of update, delete and search a line whose stripped
\* value is not a key is answered with "not found", the handler returns and
\* the dict and the file are unchanged; on an empty store the three
\* handlers return before the prompt, again without a change; and no step
\* of search changes the dict or the file.
C10_NotFoundChangesNothing ==
    [][ /\ (pc \in {"upd_id", "del_id", "search_id"}
              /\ strip(inp') \notin Keys(employees))
           => /\ out'.msg = "Employee not found!"
              /\ pc' = "menu"
              /\ employees' = employees
              /\ file' = file
        /\ (pc = "menu" /\ inp' \in {<<"3">>, <<"4">>, <<"5">>}
              /\ employees = <<>>)
           => /\ pc' = "menu"
              /\ employees' = employees
              /\ file' = file
        /\ (pc = "search_id") => (employees' = employees /\ file' = file)
        /\ (pc = "menu" /\ inp' = <<"5">>)
           => (employees' = employees /\ file' = file)
      ]_vars

\* C10 witness: delete of an ID that is not in a non-empty store has just
\* reported "not found".
C10_Witness ==
    /\ pc = "menu"
    /\ out.msg = "Employee not found!"
    /\ loc.emp_id = E2
    /\ Keys(employees) = {E1}

\* C11: choosing "view all" shows every record of the store exactly once,
\* in the order of insertion (the order of the dict), with a total equal
\* to the number of records, and returns to the menu.
C11_ViewShowsEveryRecordWithCount ==
    [][ (pc = "menu" /\ inp' = <<"2">>) =>
          /\ pc' = "menu"
          /\ out'.shown = employees
          /\ out'.total = Len(employees)
          /\ employees' = employees ]_vars

============================================================================
